---- MODULE Spec2Model ----
(***************************************************************************)
(* Model of the admin dashboard's synchronisation core                     *)
(* (frontend/src/components/AdminDashboard.tsx): the stats websocket with  *)
(* its reconnect backoff, the snapshot merger (mergeStats/shallowEqual),   *)
(* and the optimistic "killing" markers with their reconciliation.         *)
(*                                                                         *)
(* JavaScript strings are sequences of one-character strings, so that the  *)
(* marker key `${uname}:${pid}` and key.split(":", 2) are computed the way *)
(* the code computes them.  Objects created by JSON.parse carry a ref      *)
(* <<message number, index>>: === on objects is equality of refs.          *)
(***************************************************************************)
EXTENDS Integers, Sequences, FiniteSets, TLC

\* ---------------------------------------------------------------- bounds
MaxMsgs == 3        \* JSON messages decoded in one run
MaxReqs == 2        \* kill requests issued in one run
MaxSocks == 8       \* sockets created in one run
MaxGen == 2         \* runs of the websocket effect (mount + token changes)
MaxLifeSocks == 3   \* sockets created in a run that also receives snapshots

\* ------------------------------------------------------------ JS strings
Digits == <<"0", "1", "2", "3", "4", "5", "6", "7", "8", "9">>

IsDigit(c) == \E d \in 0..9 : Digits[d + 1] = c

DigitVal(c) == CHOOSE d \in 0..9 : Digits[d + 1] = c

\* String(n) for a non-negative integer, as the template literal formats it
RECURSIVE NumToStr(_)
NumToStr(n) ==
  IF n < 10 THEN <<Digits[n + 1]>>
  ELSE NumToStr(n \div 10) \o <<Digits[(n % 10) + 1]>>

\* the value Number() gives for text that is not a number
NaN == -1

RECURSIVE ParseDigits(_, _)
ParseDigits(s, acc) ==
  IF s = <<>> THEN acc
  ELSE ParseDigits(Tail(s), acc * 10 + DigitVal(Head(s)))

\* Number(s) on a string of the key alphabet: "" is 0, digits are decimal,
\* anything else is NaN
Number(s) ==
  IF s = <<>> THEN 0
  ELSE IF \A i \in 1..Len(s) : IsDigit(s[i]) THEN ParseDigits(s, 0)
  ELSE NaN

\* s.split(sep): all the pieces between separators
RECURSIVE Split(_, _)
Split(s, sep) ==
  IF \A i \in 1..Len(s) : s[i] # sep THEN <<s>>
  ELSE LET i == CHOOSE k \in 1..Len(s) :
                  s[k] = sep /\ \A j \in 1..(k - 1) : s[j] # sep
       IN <<SubSeq(s, 1, i - 1)>> \o Split(SubSeq(s, i + 1, Len(s)), sep)

\* s.split(sep, limit): the first `limit` pieces of the full split
SplitLimit(s, sep, limit) ==
  LET all == Split(s, sep)
  IN SubSeq(all, 1, IF Len(all) < limit THEN Len(all) ELSE limit)

\* `${uname}:${pid}`
Key(uname, pid) == uname \o <<":">> \o NumToStr(pid)

\* const [uname, pidStr] = key.split(":", 2); const pidNum = Number(pidStr)
DecodeKey(key) ==
  LET parts == SplitLimit(key, ":", 2)
  IN [uname |-> parts[1],
      pidNum |-> IF Len(parts) < 2 THEN NaN ELSE Number(parts[2])]

\* ------------------------------------------------------------ JS values
Null == [null |-> TRUE]
Undefined == [undefined |-> TRUE]

\* a string state that holds null: falsy, as the empty string is
NoUser == <<>>

Has(o, k) == k \in DOMAIN o

\* o[k], undefined when the property is missing
Get(o, k) == IF Has(o, k) THEN o[k] ELSE Undefined

\* ---------------------------------------------------- wire messages (§6)
UA == <<"a">>
UC == <<"a", ":", "4">>
Usernames == {UA, UC}
Pids == {4, 42}

Job(pid) == [pid |-> pid, command |-> <<"s">>, elapsed_seconds |-> 5]

\* the `jobs` property of a row: missing, or an array
NoJobs == [has |-> FALSE, items |-> <<>>]
JobsOf(items) == [has |-> TRUE, items |-> items]

WireRow(u, cpu, jobs) ==
  LET base == [username |-> u, container_id |-> <<"c">>, status |-> <<"r">>,
               cpu_percent |-> cpu, mem_usage |-> 1, mem_percent |-> 1,
               workspace_size |-> 1]
  IN IF jobs.has THEN base @@ [jobs |-> jobs.items] ELSE base

RECURSIVE SumCpu(_)
SumCpu(rows) ==
  IF rows = <<>> THEN 0 ELSE Head(rows).cpu_percent + SumCpu(Tail(rows))

WireOverall(rows) ==
  [containers |-> Len(rows), total_cpu_percent |-> SumCpu(rows),
   total_mem_usage |-> Len(rows), total_mem_percent |-> Len(rows)]

WireSnapshot(rows) == [overall |-> WireOverall(rows), users |-> rows]

\* a channel message: text that JSON.parse rejects, or a JSON value
BadJson == [json |-> FALSE, val |-> Null]
JsonMsg(v) == [json |-> TRUE, val |-> v]

\* JSON.parse of message number n: every object of the result is new; the
\* refs of message n are <<n, i>> for row i, <<n, 0>> for the aggregate,
\* <<n, -1>> for the snapshot object itself
ParseRow(n, i, w) ==
  [ref |-> <<n, i>>,
   f |-> [k \in DOMAIN w |->
            IF k = "jobs" THEN [ref |-> <<n, i>>, items |-> w[k]] ELSE w[k]]]

ParseVal(n, v) ==
  IF v = Null THEN Null
  ELSE [k \in DOMAIN v |->
          IF k = "users"
            THEN [i \in 1..Len(v[k]) |-> ParseRow(n, i, v[k][i])]
          ELSE IF k = "overall" THEN [ref |-> <<n, 0>>, f |-> v[k]]
          ELSE v[k]] @@ [ref |-> <<n, -1>>]

\* ------------------------------------------------- shallowEqual, mergeStats
ObjectKeys == {"jobs"}

\* a[k] !== b[k] is identity for objects (arrays), value equality otherwise
StrictEq(k, x, y) == IF k \in ObjectKeys THEN x.ref = y.ref ELSE x = y

\* mutant: compares the key sets and never the values
shallowEqual_keysOnly(a, b) ==
  IF a = Undefined /\ b = Undefined THEN TRUE
  ELSE IF a = Undefined \/ b = Undefined THEN FALSE
  ELSE DOMAIN a.f = DOMAIN b.f

shallowEqual(a, b) ==
  IF a = Undefined /\ b = Undefined THEN TRUE
  ELSE IF a = Undefined \/ b = Undefined THEN FALSE
  ELSE IF a.ref = b.ref THEN TRUE
  ELSE IF Cardinality(DOMAIN a.f) # Cardinality(DOMAIN b.f) THEN FALSE
  ELSE \A k \in DOMAIN a.f : Has(b.f, k) /\ StrictEq(k, a.f[k], b.f[k])

\* mapPrev.get(name): the last row of prev.users with that username
PrevRow(prevUsers, name) ==
  LET idx == {i \in 1..Len(prevUsers) : prevUsers[i].f.username = name}
  IN IF idx = {} THEN Undefined
     ELSE prevUsers[CHOOSE i \in idx : \A j \in idx : j <= i]

\* users.find(u => u.username === name): the first row with that username
FindRow(users, name) ==
  LET idx == {i \in 1..Len(users) : users[i].f.username = name}
  IN IF idx = {} THEN Undefined
     ELSE users[CHOOSE i \in idx : \A j \in idx : i <= j]

\* mergeStats raises a TypeError: prev.users.forEach / next.users.map
mergeThrows(prev, next) ==
  /\ prev # Null
  /\ \/ ~Has(prev, "users")
     \/ next = Null
     \/ ~Has(next, "users")

\* mutant: rows of the previous view that the snapshot lacks are kept
mergeStats_keepsDropped(prev, next) ==
  IF prev = Null THEN next
  ELSE [ref |-> <<next.ref[1], -2>>,
        overall |-> Get(next, "overall"),
        users |-> next.users \o
                  SelectSeq(prev.users,
                            LAMBDA p : PrevRow(next.users, p.f.username)
                                         = Undefined)]

\* mutant: the aggregate of the snapshot is always taken
mergeStats_freshOverall(prev, next) ==
  IF prev = Null THEN next
  ELSE [ref |-> <<next.ref[1], -2>>,
        overall |-> Get(next, "overall"),
        users |-> [i \in 1..Len(next.users) |->
                     LET u == next.users[i]
                         p == PrevRow(prev.users, u.f.username)
                     IN IF p # Undefined /\ shallowEqual(p, u) THEN p ELSE u]]

\* mutant: the merged rows and aggregate are assigned to the previous view
\* object, which is returned
mergeStats_sameObject(prev, next) ==
  IF prev = Null THEN next
  ELSE [ref |-> prev.ref,
        overall |-> IF shallowEqual(Get(prev, "overall"), Get(next, "overall"))
                      THEN Get(prev, "overall") ELSE Get(next, "overall"),
        users |-> [i \in 1..Len(next.users) |->
                     LET u == next.users[i]
                         p == PrevRow(prev.users, u.f.username)
                     IN IF p # Undefined /\ shallowEqual(p, u) THEN p ELSE u]]

\* the object literal { overall, users } is a new object, ref <<n, -2>> for
\* the merge of message n
mergeStats(prev, next) ==
  IF prev = Null THEN next
  ELSE [ref |-> <<next.ref[1], -2>>,
        overall |-> IF shallowEqual(Get(prev, "overall"), Get(next, "overall"))
                      THEN Get(prev, "overall") ELSE Get(next, "overall"),
        users |-> [i \in 1..Len(next.users) |->
                     LET u == next.users[i]
                         p == PrevRow(prev.users, u.f.username)
                     IN IF p # Undefined /\ shallowEqual(p, u) THEN p ELSE u]]

\* mergeStats reads prev and next and assigns to no property of either: the
\* two objects as the call leaves them
mergeStatsArgs(prev, next) == [prev |-> prev, next |-> next]

\* the render after setStats reads stats.overall.containers and
\* stats.users.length (overallCards): a TypeError when either is missing
renderThrows(s) ==
  /\ s # Null
  /\ \/ Get(s, "overall") = Undefined
     \/ ~Has(s, "users")

\* --------------------------------------------------- killingJobs updaters
\* pids of (u.jobs || [])
PidsOf(row) ==
  IF Has(row.f, "jobs")
    THEN {row.f.jobs.items[i].pid : i \in 1..Len(row.f.jobs.items)}
    ELSE {}

\* the reconcile updater raises a TypeError on parsed.users.forEach
reconcileThrows(prev, parsed) ==
  /\ prev # {}
  /\ \/ parsed = Null
     \/ ~Has(parsed, "users")

\* keep the keys whose decoded (uname, pid) is still listed by parsed.users
reconcile(prev, parsed) ==
  IF prev = {} THEN prev
  ELSE {key \in prev :
          LET d == DecodeKey(key)
              row == PrevRow(parsed.users, d.uname)
          IN row # Undefined /\ d.pidNum \in PidsOf(row)}

\* n.add(key) / n.delete(key) on a copy of the set
markKilling(prev, key) == prev \cup {key}

\* mutant: the rollback leaves the key in the set
unmarkKilling_keeps(prev, key) == prev

unmarkKilling(prev, key) == prev \ {key}

\* mutant: the failure is reported nowhere
emit_nothing(n) == n

\* one call of pushNotice({type: 'error', ...}), or of console.error
emit(n) == n + 1

\* ------------------------------------------------------ reconnect backoff
RECURSIVE Pow2(_)
Pow2(n) == IF n <= 0 THEN 1 ELSE 2 * Pow2(n - 1)

Min(a, b) == IF a < b THEN a ELSE b

\* mutant: the open handler leaves the counter as it is
openAttempts_keeps(a) == a

\* ws.onopen: reconnectAttempts.current = 0
openAttempts(a) == 0

\* ws.onclose: reconnectAttempts.current += 1
closeAttempts(a) == a + 1

\* mutant: the exponent is the attempt count, not the count minus one
backoffDelay_offByOne(a) == Min(15000, 800 * Pow2(a))

\* Math.min(15000, 800 * Math.pow(2, reconnectAttempts.current - 1))
backoffDelay(a) == Min(15000, 800 * Pow2(a - 1))

\* mutant: the close handler computes the delay and sets no timer
setTimeout_dropped(ts, g, d) == ts

\* setTimeout(connect, delay) of the effect run g
setTimeout(ts, g, d) == ts \cup {[gen |-> g, delay |-> d]}

\* --------------------------------------------------- filteredUsers (view)
UpperCase == <<"A", "B", "C", "D", "E", "F", "G", "H", "I", "J", "K", "L", "M",
               "N", "O", "P", "Q", "R", "S", "T", "U", "V", "W", "X", "Y", "Z">>
LowerCase == <<"a", "b", "c", "d", "e", "f", "g", "h", "i", "j", "k", "l", "m",
               "n", "o", "p", "q", "r", "s", "t", "u", "v", "w", "x", "y", "z">>

IsUpper(c) == \E i \in 1..26 : UpperCase[i] = c
IsLower(c) == \E i \in 1..26 : LowerCase[i] = c

\* mutant: the case is kept
toLowerCase_asIs(s) == s

\* s.toLowerCase()
toLowerCase(s) ==
  [i \in 1..Len(s) |->
     IF IsUpper(s[i])
       THEN LowerCase[CHOOSE k \in 1..26 : UpperCase[k] = s[i]]
       ELSE s[i]]

\* s.trim(): the whitespace at both ends goes
RECURSIVE trim(_)
trim(s) ==
  IF s = <<>> THEN s
  ELSE IF Head(s) = " " THEN trim(Tail(s))
  ELSE IF s[Len(s)] = " " THEN trim(SubSeq(s, 1, Len(s) - 1))
  ELSE s

\* s.includes(f)
includes(s, f) ==
  \E i \in 0..(Len(s) - Len(f)) : SubSeq(s, i + 1, i + Len(f)) = f

\* the primary collation weight of a character: whitespace, punctuation,
\* digits, then the letters without regard to case
Weight(c) ==
  IF c = " " THEN 1
  ELSE IF c = ":" THEN 2
  ELSE IF IsDigit(c) THEN 3 + DigitVal(c)
  ELSE IF IsUpper(c) THEN 20 + (CHOOSE k \in 1..26 : UpperCase[k] = c)
  ELSE 20 + (CHOOSE k \in 1..26 : LowerCase[k] = c)

Sign(n) == IF n < 0 THEN -1 ELSE IF n > 0 THEN 1 ELSE 0

\* a.localeCompare(b) in the default locale: the first difference of primary
\* weight decides, a prefix sorts first, and between strings that differ in
\* case only the lower case sorts first
localeCompare(a, b) ==
  LET n == Min(Len(a), Len(b))
      diff == {i \in 1..n : Weight(a[i]) # Weight(b[i])}
      caseDiff == {i \in 1..n : a[i] # b[i]}
      First(S) == CHOOSE i \in S : \A j \in S : i <= j
  IN IF diff # {}
       THEN Sign(Weight(a[First(diff)]) - Weight(b[First(diff)]))
     ELSE IF Len(a) # Len(b) THEN Sign(Len(a) - Len(b))
     ELSE IF caseDiff = {} THEN 0
     ELSE IF IsLower(a[First(caseDiff)]) THEN -1 ELSE 1

\* u.quota_bytes || dflt
QuotaOr(f, dflt) ==
  IF Has(f, "quota_bytes") /\ f.quota_bytes # 0 THEN f.quota_bytes ELSE dflt

\* the quota shown for a row without quota_bytes (renderStorageText)
DisplayQuota(f) == QuotaOr(f, 50 * 1024 * 1024)

\* the divisor of the storage comparator
SortQuota(f) == QuotaOr(f, 1)

\* the quotaBytes prop of the quota dialog for the user u of the view st
DialogQuota(st, u) ==
  IF u = NoUser \/ st = Null \/ FindRow(st.users, u) = Undefined
    THEN 50 * 1024 * 1024
    ELSE QuotaOr(FindRow(st.users, u).f, 50 * 1024 * 1024)

SortKeys == {"username", "cpu", "mem", "storage", "status"}

\* the comparator of filteredUsers; ap - bp has the sign of the cross product
compare(a, b, k, d) ==
  IF k = "username" THEN localeCompare(a.username, b.username) * d
  ELSE IF k = "cpu" THEN (a.cpu_percent - b.cpu_percent) * d
  ELSE IF k = "mem" THEN (a.mem_percent - b.mem_percent) * d
  ELSE IF k = "storage"
    THEN Sign(a.workspace_size * SortQuota(b)
                - b.workspace_size * SortQuota(a)) * d
  ELSE IF k = "status" THEN localeCompare(a.status, b.status) * d
  ELSE 0

\* mutant: an element goes before the elements it ties with
sortInsert_beforeTies(sorted, x, k, d) ==
  LET n == Cardinality({i \in 1..Len(sorted) :
                          compare(sorted[i].f, x.f, k, d) < 0})
  IN SubSeq(sorted, 1, n) \o <<x>> \o SubSeq(sorted, n + 1, Len(sorted))

\* one step of the stable sort: x goes after the elements that do not
\* compare greater
sortInsert(sorted, x, k, d) ==
  LET n == Cardinality({i \in 1..Len(sorted) :
                          compare(sorted[i].f, x.f, k, d) <= 0})
  IN SubSeq(sorted, 1, n) \o <<x>> \o SubSeq(sorted, n + 1, Len(sorted))

\* Array.prototype.sort with the comparator (stable since ES2019)
RECURSIVE sort(_, _, _)
sort(rows, k, d) ==
  IF rows = <<>> THEN rows
  ELSE sortInsert(sort(SubSeq(rows, 1, Len(rows) - 1), k, d),
                  rows[Len(rows)], k, d)

\* mutant: rows.sort(...) orders the array it is given
sortCopy_inPlace(rows, k, d) ==
  [sorted |-> sort(rows, k, d), rows |-> sort(rows, k, d)]

\* [...rows].sort(...): the copy is ordered, `rows` is left as it was
sortCopy(rows, k, d) == [sorted |-> sort(rows, k, d), rows |-> rows]

\* the useMemo callback: `out` is its result, `users` is the array
\* stats.users as the call leaves it
filteredUsers(st, f, k, d) ==
  IF st = Null THEN [out |-> <<>>, users |-> <<>>]
  ELSE IF trim(f) # <<>>
    THEN LET rows ==
               SelectSeq(st.users,
                         LAMBDA r : includes(toLowerCase(r.f.username),
                                             toLowerCase(trim(f))))
         IN [out |-> sortCopy(rows, k, d).sorted, users |-> st.users]
  ELSE LET r == sortCopy(st.users, k, d)
       IN [out |-> r.sorted, users |-> r.rows]

\* the render that follows a state update: the view and the presented rows
Rendered(st, f, k, d) ==
  LET p == filteredUsers(st, f, k, d)
  IN [stats |-> IF st = Null THEN st ELSE [st EXCEPT !.users = p.users],
      presented |-> p.out]

\* ------------------------------------------------------------------ state
VARIABLES
  stats,         \* useState stats: the merged view, Null before a snapshot
  killingJobs,   \* useState killingJobs: set of marker keys
  jobKillUser,   \* kill dialog target user, NoUser when none
  jobActionPid,  \* kill dialog target pid, NaN when none
  jobKillOpen,   \* kill dialog shown
  clearPending,   \* a 150 ms timer of cancelKillJob is pending
  reqs,          \* adminKillJob calls: [uname, pid, st: sent | ok | failed]
  pushNotice,    \* whether the pushNotice prop is provided
  notices,       \* error notices pushed
  logged,        \* console.error calls
  mounted,       \* the component is mounted
  gen,           \* current run of the websocket effect
  socks,         \* sockets created so far: [gen, st]; wsRef is the last one
  timers,        \* pending setTimeout(connect, delay): [gen, delay]
  reconnectAttempts, \* the ref reconnectAttempts.current
  msgNo,         \* JSON values decoded so far
  fault,         \* an exception escaped a handler or updater to the host
  filter,        \* useState filter: the search text
  sortKey,       \* useState sortKey
  sortDir,       \* useState sortDir: 1 or -1
  presented,     \* the rows filteredUsers gave at the last render
  confirmUser,   \* stop dialog target user, NoUser when none
  confirmOpen,   \* stop dialog shown
  confirmClearPending, \* a 150 ms timer of cancelStop is pending
  busyUser,      \* useState busyUser, NoUser for ''
  stops,         \* adminStopUser calls: [target, st: sent | ok | failed]
  quotaUser,     \* quota dialog target user, NoUser when none
  quotaOpen,     \* quota dialog shown
  quotaBusy,     \* useState quotaBusy
  quotas,        \* adminSetQuota calls: [uname, st: sent | ok | failed]
  \* history, read by the properties only
  lastEvent,     \* the handler that ran last
  prevStats,     \* the view before the last snapshot was merged
  lastParsed,    \* the last well-formed snapshot decoded
  prevParsed,    \* the well-formed snapshot decoded before it
  prevKilling,   \* killingJobs before the last handler
  closeRun,      \* unexpected closes since the last open
  runDelays,     \* the delays scheduled by those closes, in order
  openedAfter    \* the retry counter the last open found, -1 before any

vars == <<stats, killingJobs, jobKillUser, jobActionPid, jobKillOpen,
          clearPending, reqs, pushNotice, notices, logged, mounted, gen,
          socks, timers, reconnectAttempts, msgNo, fault, filter, sortKey,
          sortDir, presented, confirmUser, confirmOpen, confirmClearPending,
          busyUser, stops, quotaUser, quotaOpen, quotaBusy, quotas, lastEvent,
          prevStats, lastParsed, prevParsed, prevKilling, closeRun, runDelays,
          openedAfter>>

killVars == <<jobKillUser, jobActionPid, jobKillOpen, clearPending, reqs,
              notices, logged>>
connVars ==
  <<mounted, gen, socks, timers, reconnectAttempts, closeRun, runDelays,
    openedAfter>>
mergeVars == <<stats, msgNo, prevStats, lastParsed, prevParsed>>
queryVars == <<filter, sortKey, sortDir>>
stopVars == <<confirmUser, confirmOpen, confirmClearPending, busyUser, stops>>
quotaVars == <<quotaUser, quotaOpen, quotaBusy, quotas>>
\* what the channel and the kill flow leave alone
uiVars == <<queryVars, presented, stopVars, quotaVars>>

\* mutant: the cleanup never sets the flag
Cancelled_never(g) == FALSE

\* `cancelled` of the effect run g
Cancelled(g) == g < gen \/ ~mounted

NewSocket(g) == [gen |-> g, st |-> "connecting"]

Init ==
  /\ stats = Null
  /\ killingJobs = {}
  /\ jobKillUser = NoUser
  /\ jobActionPid = NaN
  /\ jobKillOpen = FALSE
  /\ clearPending = FALSE
  /\ reqs = <<>>
  /\ pushNotice \in BOOLEAN
  /\ notices = 0
  /\ logged = 0
  /\ mounted = TRUE
  /\ gen = 1
  /\ socks = <<NewSocket(1)>>
  /\ timers = {}
  /\ reconnectAttempts = 0
  /\ msgNo = 0
  /\ fault = FALSE
  /\ filter = <<>>
  /\ sortKey = "username"
  /\ sortDir = 1
  /\ presented = <<>>
  /\ confirmUser = NoUser
  /\ confirmOpen = FALSE
  /\ confirmClearPending = FALSE
  /\ busyUser = NoUser
  /\ stops = <<>>
  /\ quotaUser = NoUser
  /\ quotaOpen = FALSE
  /\ quotaBusy = FALSE
  /\ quotas = <<>>
  /\ lastEvent = [op |-> "mount"]
  /\ prevStats = Null
  /\ lastParsed = Null
  /\ prevParsed = Null
  /\ prevKilling = {}
  /\ closeRun = 0
  /\ runDelays = <<>>
  /\ openedAfter = -1

\* ------------------------------------------------------ channel handlers
WellFormed(v) == v # Null /\ Has(v, "overall") /\ Has(v, "users")

\* ws.onopen
OnOpen(i) ==
  /\ ~fault
  /\ i \in 1..Len(socks)
  /\ socks[i].st = "connecting"
  /\ socks' = [socks EXCEPT ![i].st = "open"]
  /\ reconnectAttempts' = openAttempts(reconnectAttempts)
  /\ closeRun' = 0
  /\ runDelays' = <<>>
  /\ openedAfter' = reconnectAttempts
  /\ lastEvent' = [op |-> "open"]
  /\ prevKilling' = killingJobs
  /\ UNCHANGED <<killingJobs, killVars, pushNotice, mergeVars, mounted, gen,
                 timers, uiVars, fault>>

\* mutant: a message waits until every command has its response
Delivers_whenIdle(i) ==
  /\ socks[i].st = "open"
  /\ \A r \in 1..Len(reqs) : reqs[r].st # "sent"
  /\ \A r \in 1..Len(stops) : stops[r].st # "sent"
  /\ \A r \in 1..Len(quotas) : quotas[r].st # "sent"

\* the message event fires on a socket whose ready state is OPEN, whatever
\* else the dashboard is waiting for
Delivers(i) == socks[i].st = "open"

\* ws.onmessage with text JSON.parse rejects: the catch swallows it
OnBadJson(i) ==
  /\ ~fault
  /\ i \in 1..Len(socks)
  /\ Delivers(i)
  /\ lastEvent' = [op |-> "message", kind |-> "badjson", sock |-> i]
  /\ prevKilling' = killingJobs
  /\ UNCHANGED <<killingJobs, killVars, pushNotice, mergeVars, connVars,
                 uiVars, fault>>

\* ws.onmessage with a JSON value: the two updaters run outside the try
OnMessage(i, v) ==
  /\ ~fault
  /\ i \in 1..Len(socks)
  /\ Delivers(i)
  /\ msgNo < MaxMsgs
  /\ msgNo' = msgNo + 1
  /\ lastEvent' = [op |-> "message",
                   kind |-> IF WellFormed(v) THEN "snapshot" ELSE "malformed",
                   sock |-> i]
  /\ prevKilling' = killingJobs
  /\ \E parsed \in {ParseVal(msgNo + 1, v)} :
       IF mergeThrows(stats, parsed) \/ reconcileThrows(killingJobs, parsed)
         THEN /\ fault' = TRUE
              /\ UNCHANGED <<stats, killingJobs, presented, prevStats,
                             lastParsed, prevParsed>>
         ELSE \E merged \in {mergeStats(stats, parsed)},
                 left \in {mergeStatsArgs(stats, parsed)} :
                /\ killingJobs' = reconcile(killingJobs, parsed)
                /\ fault' = renderThrows(merged)
                /\ IF renderThrows(merged)
                     THEN /\ stats' = merged
                          /\ UNCHANGED presented
                     ELSE \E r \in {Rendered(merged, filter, sortKey,
                                              sortDir)} :
                            /\ stats' = r.stats
                            /\ presented' = r.presented
                /\ IF WellFormed(v)
                     THEN /\ prevStats' = left.prev
                          /\ prevParsed' = lastParsed
                          /\ lastParsed' = left.next
                     ELSE UNCHANGED <<prevStats, lastParsed, prevParsed>>
  /\ UNCHANGED <<killVars, pushNotice, connVars, queryVars, stopVars,
                 quotaVars>>

\* a message that reaches a socket after the cleanup called close() on it:
\* the ready state is CLOSING, the browser fires no message event and
\* ws.onmessage does not run
OnMessageDropped(i) ==
  /\ ~fault
  /\ i \in 1..Len(socks)
  /\ socks[i].st = "closing"
  /\ ~Delivers(i)
  /\ lastEvent' = [op |-> "discard", sock |-> i]
  /\ prevKilling' = killingJobs
  /\ UNCHANGED <<killingJobs, killVars, pushNotice, mergeVars, connVars,
                 uiVars, fault>>

\* ws.onerror: silent; the connection has failed (readyState CLOSED) and
\* the browser fires the close event next
OnError(i) ==
  /\ ~fault
  /\ i \in 1..Len(socks)
  /\ socks[i].st \in {"connecting", "open", "closing"}
  /\ socks' = [socks EXCEPT ![i].st = "errored"]
  /\ lastEvent' = [op |-> "error"]
  /\ prevKilling' = killingJobs
  /\ UNCHANGED <<killingJobs, killVars, pushNotice, mergeVars, mounted, gen,
                 timers, reconnectAttempts, closeRun, runDelays, openedAfter,
                 uiVars, fault>>

\* mutant: the close handler also blanks the view and the pending set
OnClose_blanksView(i) ==
  /\ ~fault
  /\ i \in 1..Len(socks)
  /\ socks[i].st \in {"connecting", "open", "closing", "errored"}
  /\ socks' = [socks EXCEPT ![i].st = "closed"]
  /\ prevKilling' = killingJobs
  /\ stats' = Null
  /\ killingJobs' = {}
  /\ IF Cancelled(socks[i].gen)
       THEN /\ lastEvent' = [op |-> "close", scheduled |-> FALSE]
            /\ UNCHANGED <<reconnectAttempts, timers, closeRun, runDelays>>
       ELSE /\ reconnectAttempts' = closeAttempts(reconnectAttempts)
            /\ timers' = setTimeout(timers, socks[i].gen,
                                    backoffDelay(reconnectAttempts'))
            /\ closeRun' = closeRun + 1
            /\ runDelays' = Append(runDelays, backoffDelay(reconnectAttempts'))
            /\ lastEvent' = [op |-> "close", scheduled |-> TRUE]
  /\ UNCHANGED <<killVars, pushNotice, msgNo, prevStats, lastParsed,
                 prevParsed, mounted, gen, openedAfter, uiVars, fault>>

\* ws.onclose: unless cancelled, count the attempt and schedule connect
OnClose(i) ==
  /\ ~fault
  /\ i \in 1..Len(socks)
  /\ socks[i].st \in {"connecting", "open", "closing", "errored"}
  /\ socks' = [socks EXCEPT ![i].st = "closed"]
  /\ prevKilling' = killingJobs
  /\ IF Cancelled(socks[i].gen)
       THEN /\ lastEvent' = [op |-> "close", scheduled |-> FALSE]
            /\ UNCHANGED <<reconnectAttempts, timers, closeRun, runDelays>>
       ELSE /\ reconnectAttempts' = closeAttempts(reconnectAttempts)
            /\ timers' = setTimeout(timers, socks[i].gen,
                                    backoffDelay(reconnectAttempts'))
            /\ closeRun' = closeRun + 1
            /\ runDelays' = Append(runDelays, backoffDelay(reconnectAttempts'))
            /\ lastEvent' = [op |-> "close", scheduled |-> TRUE]
  /\ UNCHANGED <<killingJobs, killVars, pushNotice, mergeVars, mounted, gen,
                 openedAfter, uiVars, fault>>

\* the backoff timer fires: connect() of the effect run that set it
TimerFire(t) ==
  /\ ~fault
  /\ t \in timers
  /\ timers' = timers \ {t}
  /\ lastEvent' = [op |-> "timer", connected |-> ~Cancelled(t.gen)]
  /\ prevKilling' = killingJobs
  /\ IF Cancelled(t.gen)
       THEN UNCHANGED socks
       ELSE /\ Len(socks) < MaxSocks
            /\ socks' = Append(socks, NewSocket(t.gen))
  /\ UNCHANGED <<killingJobs, killVars, pushNotice, mergeVars, mounted, gen,
                 reconnectAttempts, closeRun, runDelays, openedAfter, uiVars,
                 fault>>

\* mutant: the cleanup sets the flag and closes nothing
LocalClose_nothing(ss) == ss

\* wsRef.current?.close() of the effect cleanup
LocalClose(ss) ==
  IF ss # <<>> /\ ss[Len(ss)].st \in {"connecting", "open"}
    THEN [ss EXCEPT ![Len(ss)].st = "closing"]
    ELSE ss

\* the token prop changes: cleanup of the old run, then connect() of a new
TokenChange ==
  /\ ~fault
  /\ mounted
  /\ gen < MaxGen
  /\ Len(socks) < MaxSocks
  /\ gen' = gen + 1
  /\ socks' = Append(LocalClose(socks), NewSocket(gen + 1))
  /\ lastEvent' = [op |-> "token"]
  /\ prevKilling' = killingJobs
  /\ UNCHANGED <<killingJobs, killVars, pushNotice, mergeVars, mounted,
                 timers, reconnectAttempts, closeRun, runDelays, openedAfter,
                 uiVars, fault>>

\* the dashboard unmounts: effect cleanup
Unmount ==
  /\ ~fault
  /\ mounted
  /\ mounted' = FALSE
  /\ socks' = LocalClose(socks)
  /\ lastEvent' = [op |-> "unmount"]
  /\ prevKilling' = killingJobs
  /\ UNCHANGED <<killingJobs, killVars, pushNotice, mergeVars, gen, timers,
                 reconnectAttempts, closeRun, runDelays, openedAfter, uiVars,
                 fault>>

\* ------------------------------------------------------------ kill flow
\* a modal dialog covers the dashboard
DialogOpen == jobKillOpen \/ confirmOpen \/ quotaOpen

\* the Kill button of a listed job, disabled while its marker is pending
startKillJob(uname, pid) ==
  /\ ~fault
  /\ mounted
  /\ ~DialogOpen
  /\ stats # Null
  /\ \E i \in 1..Len(stats.users) :
       /\ stats.users[i].f.username = uname
       /\ pid \in PidsOf(stats.users[i])
  /\ Key(uname, pid) \notin killingJobs
  /\ jobKillUser' = uname
  /\ jobActionPid' = pid
  /\ jobKillOpen' = TRUE
  /\ lastEvent' = [op |-> "startKill"]
  /\ prevKilling' = killingJobs
  /\ UNCHANGED <<killingJobs, clearPending, reqs, notices, logged, pushNotice,
                 mergeVars, connVars, uiVars, fault>>

\* the dialog's Cancel: closes it and clears the target 150 ms later
cancelKillJob ==
  /\ ~fault
  /\ mounted
  /\ jobKillOpen
  /\ ~clearPending
  /\ jobKillOpen' = FALSE
  /\ clearPending' = TRUE
  /\ lastEvent' = [op |-> "cancelKill"]
  /\ prevKilling' = killingJobs
  /\ UNCHANGED <<killingJobs, jobKillUser, jobActionPid, reqs, notices,
                 logged, pushNotice, mergeVars, connVars, uiVars, fault>>

\* setTimeout(() => { setJobKillUser(null); setJobActionPid(null); }, 150)
ClearTimerFire ==
  /\ ~fault
  /\ clearPending
  /\ clearPending' = FALSE
  /\ jobKillUser' = NoUser
  /\ jobActionPid' = NaN
  /\ lastEvent' = [op |-> "clearTimer"]
  /\ prevKilling' = killingJobs
  /\ UNCHANGED <<killingJobs, jobKillOpen, reqs, notices, logged, pushNotice,
                 mergeVars, connVars, uiVars, fault>>

\* the dialog's Kill: mark the key, then send the request
confirmKillJob ==
  /\ ~fault
  /\ mounted
  /\ jobKillOpen
  /\ prevKilling' = killingJobs
  /\ IF jobKillUser = NoUser \/ jobActionPid = NaN
       THEN /\ lastEvent' = [op |-> "confirmKill", sent |-> FALSE]
            /\ UNCHANGED <<killingJobs, jobKillUser, jobActionPid,
                           jobKillOpen, reqs>>
       ELSE /\ Len(reqs) < MaxReqs
            /\ jobKillOpen' = FALSE
            /\ jobKillUser' = NoUser
            /\ jobActionPid' = NaN
            /\ killingJobs' =
                 markKilling(killingJobs, Key(jobKillUser, jobActionPid))
            /\ reqs' = Append(reqs, [uname |-> jobKillUser,
                                     pid |-> jobActionPid, st |-> "sent"])
            /\ lastEvent' = [op |-> "confirmKill", sent |-> TRUE]
  /\ UNCHANGED <<clearPending, notices, logged, pushNotice, mergeVars,
                 connVars, uiVars, fault>>

\* adminKillJob resolves: no handler is attached to success
KillResolved(r) ==
  /\ ~fault
  /\ r \in 1..Len(reqs)
  /\ reqs[r].st = "sent"
  /\ reqs' = [reqs EXCEPT ![r].st = "ok"]
  /\ lastEvent' = [op |-> "killResolved", req |-> r]
  /\ prevKilling' = killingJobs
  /\ UNCHANGED <<killingJobs, jobKillUser, jobActionPid, jobKillOpen,
                 clearPending, notices, logged, pushNotice, mergeVars,
                 connVars, uiVars, fault>>

\* adminKillJob rejects: the catch removes the key and reports the error
KillRejected(r) ==
  /\ ~fault
  /\ r \in 1..Len(reqs)
  /\ reqs[r].st = "sent"
  /\ reqs' = [reqs EXCEPT ![r].st = "failed"]
  /\ killingJobs' = unmarkKilling(killingJobs, Key(reqs[r].uname, reqs[r].pid))
  /\ IF pushNotice
       THEN notices' = emit(notices) /\ UNCHANGED logged
       ELSE logged' = emit(logged) /\ UNCHANGED notices
  /\ lastEvent' = [op |-> "killRejected", req |-> r]
  /\ prevKilling' = killingJobs
  /\ UNCHANGED <<jobKillUser, jobActionPid, jobKillOpen, clearPending,
                 pushNotice, mergeVars, connVars, uiVars, fault>>

\* ------------------------------------------------------------ query state
\* the search box: setFilter(e.target.value), then the render
setFilter(text) ==
  /\ ~fault
  /\ mounted
  /\ ~DialogOpen
  /\ text # filter
  /\ filter' = text
  /\ LET r == Rendered(stats, text, sortKey, sortDir)
     IN stats' = r.stats /\ presented' = r.presented
  /\ lastEvent' = [op |-> "setFilter"]
  /\ prevKilling' = killingJobs
  /\ UNCHANGED <<killingJobs, killVars, pushNotice, msgNo, prevStats,
                 lastParsed, prevParsed, connVars, sortKey, sortDir, stopVars,
                 quotaVars, fault>>

\* a column header: flip the direction of the active key, or take the new
\* key ascending; then the render
toggleSort(k) ==
  /\ ~fault
  /\ mounted
  /\ ~DialogOpen
  /\ IF k = sortKey
       THEN /\ sortDir' = (IF sortDir = 1 THEN -1 ELSE 1)
            /\ UNCHANGED sortKey
       ELSE /\ sortKey' = k
            /\ sortDir' = 1
  /\ LET r == Rendered(stats, filter, sortKey', sortDir')
     IN stats' = r.stats /\ presented' = r.presented
  /\ lastEvent' = [op |-> "toggleSort"]
  /\ prevKilling' = killingJobs
  /\ UNCHANGED <<killingJobs, killVars, pushNotice, msgNo, prevStats,
                 lastParsed, prevParsed, connVars, filter, stopVars,
                 quotaVars, fault>>

\* ------------------------------------------------------------ stop flow
\* the row u is among the rows on screen
Shown(u) == \E i \in 1..Len(presented) : presented[i].f.username = u

\* the Stop & Delete button of a row, disabled while busyUser names it
requestStopUser(u) ==
  /\ ~fault
  /\ mounted
  /\ ~DialogOpen
  /\ Shown(u)
  /\ busyUser # u
  /\ confirmUser' = u
  /\ confirmOpen' = TRUE
  /\ lastEvent' = [op |-> "requestStop"]
  /\ prevKilling' = killingJobs
  /\ UNCHANGED <<killingJobs, killVars, pushNotice, mergeVars, connVars,
                 queryVars, presented, confirmClearPending, busyUser, stops,
                 quotaVars, fault>>

\* the dialog's Cancel: closes it and clears the target 150 ms later
cancelStop ==
  /\ ~fault
  /\ mounted
  /\ confirmOpen
  /\ ~confirmClearPending
  /\ confirmOpen' = FALSE
  /\ confirmClearPending' = TRUE
  /\ lastEvent' = [op |-> "cancelStop"]
  /\ prevKilling' = killingJobs
  /\ UNCHANGED <<killingJobs, killVars, pushNotice, mergeVars, connVars,
                 queryVars, presented, confirmUser, busyUser, stops,
                 quotaVars, fault>>

\* setTimeout(() => setConfirmUser(null), 150)
StopClearTimerFire ==
  /\ ~fault
  /\ confirmClearPending
  /\ confirmClearPending' = FALSE
  /\ confirmUser' = NoUser
  /\ lastEvent' = [op |-> "stopClearTimer"]
  /\ prevKilling' = killingJobs
  /\ UNCHANGED <<killingJobs, killVars, pushNotice, mergeVars, connVars,
                 queryVars, presented, confirmOpen, busyUser, stops,
                 quotaVars, fault>>

\* the dialog's Stop & Delete: mark the user busy, then send the request
confirmStop ==
  /\ ~fault
  /\ mounted
  /\ confirmOpen
  /\ prevKilling' = killingJobs
  /\ IF confirmUser = NoUser
       THEN /\ lastEvent' = [op |-> "confirmStop", sent |-> FALSE]
            /\ UNCHANGED <<confirmOpen, busyUser, stops>>
       ELSE /\ Len(stops) < MaxReqs
            /\ confirmOpen' = FALSE
            /\ busyUser' = confirmUser
            /\ stops' = Append(stops, [target |-> confirmUser, st |-> "sent"])
            /\ lastEvent' = [op |-> "confirmStop", sent |-> TRUE]
  /\ UNCHANGED <<killingJobs, killVars, pushNotice, mergeVars, connVars,
                 queryVars, presented, confirmUser, confirmClearPending,
                 quotaVars, fault>>

\* adminStopUser resolves: the finally block clears the busy marker
StopResolved(r) ==
  /\ ~fault
  /\ r \in 1..Len(stops)
  /\ stops[r].st = "sent"
  /\ stops' = [stops EXCEPT ![r].st = "ok"]
  /\ busyUser' = NoUser
  /\ confirmUser' = NoUser
  /\ lastEvent' = [op |-> "stopResolved", req |-> r]
  /\ prevKilling' = killingJobs
  /\ UNCHANGED <<killingJobs, killVars, pushNotice, mergeVars, connVars,
                 queryVars, presented, confirmOpen, confirmClearPending,
                 quotaVars, fault>>

\* mutant: the failure handler takes the session off the view
StopRejected_dropsRow(r) ==
  /\ ~fault
  /\ r \in 1..Len(stops)
  /\ stops[r].st = "sent"
  /\ stops' = [stops EXCEPT ![r].st = "failed"]
  /\ IF pushNotice
       THEN notices' = emit(notices) /\ UNCHANGED logged
       ELSE logged' = emit(logged) /\ UNCHANGED notices
  /\ busyUser' = NoUser
  /\ confirmUser' = NoUser
  /\ stats' = IF stats = Null THEN stats
              ELSE [stats EXCEPT !.users =
                      SelectSeq(stats.users,
                                LAMBDA u : u.f.username # stops[r].target)]
  /\ lastEvent' = [op |-> "stopRejected", req |-> r]
  /\ prevKilling' = killingJobs
  /\ UNCHANGED <<killingJobs, jobKillUser, jobActionPid, jobKillOpen,
                 clearPending, reqs, pushNotice, msgNo, prevStats, lastParsed,
                 prevParsed, connVars, queryVars, presented, confirmOpen,
                 confirmClearPending, quotaVars, fault>>

\* adminStopUser rejects: the catch reports the error, then the finally
StopRejected(r) ==
  /\ ~fault
  /\ r \in 1..Len(stops)
  /\ stops[r].st = "sent"
  /\ stops' = [stops EXCEPT ![r].st = "failed"]
  /\ IF pushNotice
       THEN notices' = emit(notices) /\ UNCHANGED logged
       ELSE logged' = emit(logged) /\ UNCHANGED notices
  /\ busyUser' = NoUser
  /\ confirmUser' = NoUser
  /\ lastEvent' = [op |-> "stopRejected", req |-> r]
  /\ prevKilling' = killingJobs
  /\ UNCHANGED <<killingJobs, jobKillUser, jobActionPid, jobKillOpen,
                 clearPending, reqs, pushNotice, mergeVars, connVars,
                 queryVars, presented, confirmOpen, confirmClearPending,
                 quotaVars, fault>>

\* ------------------------------------------------------------ quota flow
QuotaMBs == {50, 100}

\* the Edit Storage Quota button of a row
openQuota(u) ==
  /\ ~fault
  /\ mounted
  /\ ~DialogOpen
  /\ Shown(u)
  /\ quotaUser' = u
  /\ quotaOpen' = TRUE
  /\ lastEvent' = [op |-> "openQuota"]
  /\ prevKilling' = killingJobs
  /\ UNCHANGED <<killingJobs, killVars, pushNotice, mergeVars, connVars,
                 queryVars, presented, stopVars, quotaBusy, quotas, fault>>

\* the dialog's Cancel (onClose), disabled while a save is in flight
closeQuota ==
  /\ ~fault
  /\ mounted
  /\ quotaOpen
  /\ quotaUser # NoUser
  /\ ~quotaBusy
  /\ quotaOpen' = FALSE
  /\ quotaUser' = NoUser
  /\ lastEvent' = [op |-> "closeQuota"]
  /\ prevKilling' = killingJobs
  /\ UNCHANGED <<killingJobs, killVars, pushNotice, mergeVars, connVars,
                 queryVars, presented, stopVars, quotaBusy, quotas, fault>>

\* the dialog's Save, disabled while a save is in flight; mb goes to the
\* server and into no state of the dashboard
saveQuota(mb) ==
  /\ ~fault
  /\ mounted
  /\ quotaOpen
  /\ quotaUser # NoUser
  /\ ~quotaBusy
  /\ Len(quotas) < MaxReqs
  /\ quotaBusy' = TRUE
  /\ quotas' = Append(quotas, [uname |-> quotaUser, st |-> "sent"])
  /\ lastEvent' = [op |-> "saveQuota"]
  /\ prevKilling' = killingJobs
  /\ UNCHANGED <<killingJobs, killVars, pushNotice, mergeVars, connVars,
                 queryVars, presented, stopVars, quotaUser, quotaOpen, fault>>

\* adminSetQuota resolves: the dialog closes
QuotaResolved(r) ==
  /\ ~fault
  /\ r \in 1..Len(quotas)
  /\ quotas[r].st = "sent"
  /\ quotas' = [quotas EXCEPT ![r].st = "ok"]
  /\ quotaOpen' = FALSE
  /\ quotaUser' = NoUser
  /\ quotaBusy' = FALSE
  /\ lastEvent' = [op |-> "quotaResolved", req |-> r]
  /\ prevKilling' = killingJobs
  /\ UNCHANGED <<killingJobs, killVars, pushNotice, mergeVars, connVars,
                 queryVars, presented, stopVars, fault>>

\* adminSetQuota rejects: the catch reports the error, the dialog stays
QuotaRejected(r) ==
  /\ ~fault
  /\ r \in 1..Len(quotas)
  /\ quotas[r].st = "sent"
  /\ quotas' = [quotas EXCEPT ![r].st = "failed"]
  /\ IF pushNotice
       THEN notices' = emit(notices) /\ UNCHANGED logged
       ELSE logged' = emit(logged) /\ UNCHANGED notices
  /\ quotaBusy' = FALSE
  /\ lastEvent' = [op |-> "quotaRejected", req |-> r]
  /\ prevKilling' = killingJobs
  /\ UNCHANGED <<killingJobs, jobKillUser, jobActionPid, jobKillOpen,
                 clearPending, reqs, pushNotice, mergeVars, connVars,
                 queryVars, presented, stopVars, quotaUser, quotaOpen, fault>>

\* --------------------------------------------------------- message inputs
CpuVals == {10, 20}
JobLists == {NoJobs, JobsOf(<<>>), JobsOf(<<Job(4)>>)}

RowsA == {WireRow(UA, c, j) : c \in CpuVals, j \in JobLists}
RowC == WireRow(UC, 10, JobsOf(<<Job(42)>>))

\* well-formed snapshots for the merger: the row of "a" varies
MergeSnapshots ==
  {WireSnapshot(<<>>), WireSnapshot(<<RowC>>)}
    \cup {WireSnapshot(<<a>>) : a \in RowsA}
    \cup {WireSnapshot(<<a, RowC>>) : a \in RowsA}
    \cup {WireSnapshot(<<RowC, a>>) : a \in RowsA}

\* well-formed snapshots for the kill markers: only the job lists vary
RowA(items) == WireRow(UA, 10, JobsOf(items))

KillSnapshots ==
  {WireSnapshot(<<RowC>>), WireSnapshot(<<RowA(<<>>)>>),
   WireSnapshot(<<RowA(<<Job(4)>>)>>),
   WireSnapshot(<<RowA(<<Job(4)>>), RowC>>)}

\* rows for the projection: names that differ in case, values that tie,
\* quota_bytes present or missing
Alice == <<"A", "l", "i", "c", "e">>
Bob == <<"b", "o", "b">>
ALEX == <<"A", "L", "E", "X">>
Amy == <<"a", "m", "y">>

NoQuota == [has |-> FALSE, bytes |-> 0]
QuotaOf(b) == [has |-> TRUE, bytes |-> b]

ViewRow(u, status, cpu, mem, size, quota) ==
  LET base == [username |-> u, container_id |-> <<"c">>, status |-> status,
               cpu_percent |-> cpu, mem_usage |-> 1, mem_percent |-> mem,
               workspace_size |-> size]
  IN IF quota.has THEN base @@ [quota_bytes |-> quota.bytes] ELSE base

ViewSnapshots ==
  {WireSnapshot(<<ViewRow(Alice, <<"r">>, 20, 1, 20, NoQuota),
                  ViewRow(Bob, <<"e">>, 10, 2, 10, QuotaOf(100)),
                  ViewRow(ALEX, <<"r">>, 10, 2, 20, QuotaOf(100))>>),
   WireSnapshot(<<ViewRow(Bob, <<"r">>, 10, 1, 10, NoQuota),
                  ViewRow(Amy, <<"r">>, 10, 1, 10, NoQuota)>>)}

\* search texts: empty, matching in either case, padded, blank, one letter
FilterTexts ==
  {<<>>, <<"a", "l">>, <<"A", "L">>, <<"a", "l", " ">>, <<" ">>, <<"b">>}

\* the snapshot the command flows run against
CmdSnapshots == {WireSnapshot(<<RowA(<<Job(4)>>)>>)}

\* snapshots that arrive while commands are outstanding: the job is listed,
\* then gone
BusySnapshots ==
  {WireSnapshot(<<RowA(<<Job(4)>>)>>), WireSnapshot(<<RowA(<<>>)>>)}

\* two sessions on screen, for stop requests that overlap
StopSnapshots == {WireSnapshot(<<RowA(<<>>), RowC>>)}

\* valid JSON that is not a snapshot: null, or an object missing a property
Malformed ==
  {Null, [overall |-> WireOverall(<<>>)], [users |-> <<RowC>>]}

\* --------------------------------------------------------- specifications
ChannelNext ==
  \/ \E i \in 1..MaxSocks : OnOpen(i)
  \/ \E i \in 1..MaxSocks : OnBadJson(i)

ConnNext ==
  \/ \E i \in 1..MaxSocks : OnError(i)
  \/ \E i \in 1..MaxSocks : OnClose(i)
  \/ \E t \in timers : TimerFire(t)
  \/ TokenChange
  \/ Unmount

KillNext ==
  \/ \E u \in Usernames, p \in Pids : startKillJob(u, p)
  \/ cancelKillJob
  \/ ClearTimerFire
  \/ confirmKillJob
  \/ \E r \in 1..MaxReqs : KillResolved(r)
  \/ \E r \in 1..MaxReqs : KillRejected(r)

QueryNext ==
  \/ \E text \in FilterTexts : setFilter(text)
  \/ \E k \in SortKeys : toggleSort(k)

StopNext ==
  \/ \E u \in Usernames : requestStopUser(u)
  \/ cancelStop
  \/ StopClearTimerFire
  \/ confirmStop
  \/ \E r \in 1..MaxReqs : StopResolved(r)
  \/ \E r \in 1..MaxReqs : StopRejected(r)

QuotaNext ==
  \/ \E u \in Usernames : openQuota(u)
  \/ closeQuota
  \/ \E mb \in QuotaMBs : saveQuota(mb)
  \/ \E r \in 1..MaxReqs : QuotaResolved(r)
  \/ \E r \in 1..MaxReqs : QuotaRejected(r)

\* the merger under a stream of snapshots and malformed messages
NextMerge ==
  \/ ChannelNext
  \/ \E i \in 1..MaxSocks, v \in MergeSnapshots \cup Malformed : OnMessage(i, v)

SpecMerge == Init /\ [][NextMerge]_vars

\* the kill markers under snapshots and kill commands
NextKill ==
  \/ ChannelNext
  \/ \E i \in 1..MaxSocks, v \in KillSnapshots : OnMessage(i, v)
  \/ KillNext

SpecKill == Init /\ [][NextKill]_vars

\* the connection manager: lifecycle events of the channel
NextConn ==
  \/ ChannelNext
  \/ ConnNext

SpecConn == Init /\ [][NextConn]_vars

\* one run of the websocket effect, up to the unmount
NextRecover ==
  \/ \E i \in 1..MaxSocks : OnOpen(i)
  \/ \E i \in 1..MaxSocks : OnError(i)
  \/ \E i \in 1..MaxSocks : OnClose(i)
  \/ \E t \in timers : TimerFire(t)
  \/ Unmount

\* the event loop runs a due timer, and the browser fires the close event
\* of a connection that failed
SpecRecover ==
  /\ Init
  /\ [][NextRecover]_vars
  /\ WF_vars(\E t \in timers : TimerFire(t))
  /\ WF_vars(\E i \in 1..Len(socks) : socks[i].st = "errored" /\ OnClose(i))

\* the projection under snapshots and changes of the query state
NextView ==
  \/ ChannelNext
  \/ \E i \in 1..MaxSocks, v \in ViewSnapshots : OnMessage(i, v)
  \/ QueryNext

SpecView == Init /\ [][NextView]_vars

\* the three commands and their responses against one session
NextCmd ==
  \/ \E i \in 1..MaxSocks : OnOpen(i)
  \/ \E i \in 1..MaxSocks, v \in CmdSnapshots : OnMessage(i, v)
  \/ \E u \in Usernames, p \in Pids : startKillJob(u, p)
  \/ confirmKillJob
  \/ \E r \in 1..MaxReqs : KillResolved(r)
  \/ \E r \in 1..MaxReqs : KillRejected(r)
  \/ \E u \in Usernames : requestStopUser(u)
  \/ confirmStop
  \/ \E r \in 1..MaxReqs : StopResolved(r)
  \/ \E r \in 1..MaxReqs : StopRejected(r)
  \/ \E u \in Usernames : openQuota(u)
  \/ \E mb \in QuotaMBs : saveQuota(mb)
  \/ \E r \in 1..MaxReqs : QuotaResolved(r)
  \/ \E r \in 1..MaxReqs : QuotaRejected(r)

SpecCmd == Init /\ [][NextCmd]_vars

\* snapshots arriving while commands are issued and answered
NextBusy ==
  \/ \E i \in 1..MaxSocks : OnOpen(i)
  \/ \E i \in 1..MaxSocks, v \in BusySnapshots : OnMessage(i, v)
  \/ \E u \in Usernames, p \in Pids : startKillJob(u, p)
  \/ confirmKillJob
  \/ \E r \in 1..MaxReqs : KillResolved(r)
  \/ \E u \in Usernames : requestStopUser(u)
  \/ confirmStop
  \/ \E r \in 1..MaxReqs : StopResolved(r)
  \/ \E u \in Usernames : openQuota(u)
  \/ \E mb \in QuotaMBs : saveQuota(mb)
  \/ \E r \in 1..MaxReqs : QuotaResolved(r)

SpecBusy == Init /\ [][NextBusy]_vars

\* the channel's lifecycle while snapshots arrive and kills are pending
NextLife ==
  \/ \E i \in 1..MaxSocks : OnOpen(i)
  \/ \E i \in 1..MaxSocks, v \in BusySnapshots : OnMessage(i, v)
  \/ \E i \in 1..MaxSocks : OnMessageDropped(i)
  \/ \E i \in 1..MaxSocks : OnError(i)
  \/ \E i \in 1..MaxSocks : OnClose(i)
  \/ \E t \in timers :
       (Cancelled(t.gen) \/ Len(socks) < MaxLifeSocks) /\ TimerFire(t)
  \/ Len(socks) < MaxLifeSocks /\ TokenChange
  \/ Unmount
  \/ \E u \in Usernames, p \in Pids : startKillJob(u, p)
  \/ confirmKillJob

SpecLife == Init /\ [][NextLife]_vars

\* stop requests against two sessions
NextStop ==
  \/ \E i \in 1..MaxSocks : OnOpen(i)
  \/ \E i \in 1..MaxSocks, v \in StopSnapshots : OnMessage(i, v)
  \/ StopNext

SpecStop == Init /\ [][NextStop]_vars

\* everything together
Next ==
  \/ ChannelNext
  \/ \E i \in 1..MaxSocks : OnMessageDropped(i)
  \/ ConnNext
  \/ KillNext
  \/ StopNext
  \/ QuotaNext
  \/ QueryNext
  \/ \E i \in 1..MaxSocks,
        v \in KillSnapshots \cup ViewSnapshots \cup BusySnapshots
                \cup StopSnapshots :
       OnMessage(i, v)

Spec == Init /\ [][Next]_vars

\* ============================================================ properties
\* the field values of a row, arrays by content
Content(row) ==
  [k \in DOMAIN row.f |->
     IF k \in ObjectKeys THEN row.f[k].items ELSE row.f[k]]

Listed(view, u) == PrevRow(view.users, u) # Undefined

\* two snapshots have been merged and nothing escaped
TwoMerged == ~fault /\ prevParsed # Null

\* C1: identity stability - a session with equal field values (job list
\* included) in two consecutive snapshots keeps, after the second merge, the
\* very row object it had after the first merge.
IdentityStability ==
  TwoMerged =>
    \A u \in Usernames :
      (/\ Listed(prevParsed, u)
       /\ Listed(lastParsed, u)
       /\ Content(PrevRow(prevParsed.users, u))
            = Content(PrevRow(lastParsed.users, u)))
      => PrevRow(stats.users, u).ref = PrevRow(prevStats.users, u).ref

\* C2: the merged view is content-equal to the last snapshot delivered: the
\* same usernames in the same order, every row with that snapshot's field
\* values (a reused row is never stale), and that snapshot's aggregate.
ViewReflectsLastSnapshot ==
  (~fault /\ lastParsed # Null) =>
    /\ Len(stats.users) = Len(lastParsed.users)
    /\ \A i \in 1..Len(lastParsed.users) :
         Content(stats.users[i]) = Content(lastParsed.users[i])
    /\ stats.overall.f = lastParsed.overall.f

\* a merge reused a row of the previous view while the session list changed
ReusedRowReached ==
  /\ TwoMerged
  /\ \E i \in 1..Len(stats.users) :
       stats.users[i].ref # lastParsed.users[i].ref
  /\ Len(prevParsed.users) # Len(lastParsed.users)

\* C3: removal on dropout - a session of snapshot N that snapshot N+1 lacks
\* has no row in the view after N+1 is merged.
RemovalOnDropout ==
  TwoMerged =>
    \A u \in Usernames :
      (Listed(prevParsed, u) /\ ~Listed(lastParsed, u)) => ~Listed(stats, u)

\* a session listed by the previous view dropped out of the last snapshot
DropoutReached ==
  /\ TwoMerged
  /\ \E u \in Usernames :
       /\ Listed(prevParsed, u)
       /\ Listed(prevStats, u)
       /\ ~Listed(lastParsed, u)
       /\ Len(lastParsed.users) > 0

\* ---------------------------------------------------------- kill markers
\* the step is the handler of a well-formed snapshot and nothing escaped
SnapshotStep ==
  /\ lastEvent'.op = "message"
  /\ lastEvent'.kind = "snapshot"
  /\ ~fault'

\* the snapshot lists pid p under session u
Lists(snap, u, p) ==
  /\ Listed(snap, u)
  /\ p \in PidsOf(PrevRow(snap.users, u))

\* the step is the failure handler of a kill request for (u, p)
RejectStep(u, p) ==
  /\ lastEvent'.op = "killRejected"
  /\ reqs[lastEvent'.req].uname = u
  /\ reqs[lastEvent'.req].pid = p

\* C4: reconciliation confirms success - a pending marker (u, p) is gone
\* after the handler of a snapshot in which u is absent or lists no pid p,
\* and that handler emits no error notification.
ReconcileConfirms ==
  [][SnapshotStep =>
       /\ \A u \in Usernames, p \in Pids :
            (Key(u, p) \in killingJobs /\ ~Lists(lastParsed', u, p))
            => Key(u, p) \notin killingJobs'
       /\ notices' = notices
       /\ logged' = logged]_vars

\* C5: retention while unconfirmed - a pending marker (u, p) stays after
\* every snapshot that lists pid p under u; short of a fault, only a snapshot
\* lacking the pid or the rejection of the command removes it.
RetainedWhileListed ==
  [][/\ SnapshotStep =>
          \A u \in Usernames, p \in Pids :
            (Key(u, p) \in killingJobs /\ Lists(lastParsed', u, p))
            => Key(u, p) \in killingJobs'
     /\ \A u \in Usernames, p \in Pids :
          (~fault' /\ Key(u, p) \in killingJobs
             /\ Key(u, p) \notin killingJobs')
          => \/ SnapshotStep /\ ~Lists(lastParsed', u, p)
             \/ RejectStep(u, p)]_vars

\* C6: rollback on rejection - after the failure handler of the kill
\* command for (u, p) the marker (u, p) is not in the pending set, whether
\* or not the view still lists the pid.
RollbackOnRejection ==
  lastEvent.op = "killRejected" =>
    Key(reqs[lastEvent.req].uname, reqs[lastEvent.req].pid) \notin killingJobs

\* a kill was rejected while its marker was pending and the view still
\* lists the pid
RollbackReached ==
  /\ lastEvent.op = "killRejected"
  /\ Key(reqs[lastEvent.req].uname, reqs[lastEvent.req].pid) \in prevKilling
  /\ ~fault
  /\ stats # Null
  /\ Lists(stats, reqs[lastEvent.req].uname, reqs[lastEvent.req].pid)

\* a marker has a kill request that is outstanding or has succeeded
MarkerHasRequest ==
  \A key \in killingJobs :
    \E r \in 1..Len(reqs) :
      /\ Key(reqs[r].uname, reqs[r].pid) = key
      /\ reqs[r].st \in {"sent", "ok"}

\* C7: marker lifetime - a marker (u, pid) is pending only while a kill
\* request for (u, pid) is outstanding or succeeded and unconfirmed; it is
\* removed only by a snapshot that lacks the pid or by the rejection of its
\* command, and removing an absent marker changes nothing.
MarkerLifetime ==
  /\ []MarkerHasRequest
  /\ [][/\ \A u \in Usernames, p \in Pids :
             (~fault' /\ Key(u, p) \in killingJobs
                /\ Key(u, p) \notin killingJobs')
             => \/ SnapshotStep /\ ~Lists(lastParsed', u, p)
                \/ RejectStep(u, p)
        /\ \A u \in Usernames, p \in Pids :
             (RejectStep(u, p) /\ Key(u, p) \notin killingJobs)
             => killingJobs' = killingJobs]_vars

\* ------------------------------------------------------- decode failures
\* the step is the handler of a message that is not a well-formed snapshot
UndecodableStep ==
  /\ lastEvent'.op = "message"
  /\ lastEvent'.kind \in {"badjson", "malformed"}

\* C8: decode failure is a no-op - a message that is invalid JSON, or valid
\* JSON without the overall/users shape, leaves the view, the pending set,
\* the retry counter and the connection as they were and schedules no
\* reconnect.
DecodeFailureIsNoop ==
  [][UndecodableStep =>
       UNCHANGED <<stats, killingJobs, reconnectAttempts, socks, timers>>]_vars

\* C9: no handler of the core lets an exception escape to the host.
NoUnhandledFault == ~fault

\* ---------------------------------------------------------------- backoff
DelayTable == <<800, 1600, 3200, 6400, 12800, 15000>>

ExpectedDelay(k) == IF 800 * 2^(k - 1) < 15000 THEN 800 * 2^(k - 1) ELSE 15000

\* C10: backoff monotonicity and cap - the k-th consecutive unexpected close
\* with no open in between schedules min(15000, 800 * 2^(k-1)) ms: 800,
\* 1600, 3200, 6400, 12800, 15000 for k = 1..6, never decreasing within the
\* run and never above 15000.
BackoffSchedule ==
  /\ Len(runDelays) = closeRun
  /\ \A k \in 1..Len(runDelays) :
       /\ runDelays[k] = ExpectedDelay(k)
       /\ k <= 6 => runDelays[k] = DelayTable[k]
       /\ runDelays[k] <= 15000
       /\ k > 1 => runDelays[k] >= runDelays[k - 1]

\* a run of seven failed attempts: the cap is reached and held
BackoffCapReached ==
  /\ closeRun >= 7
  /\ runDelays[6] = 15000
  /\ runDelays[7] = 15000
  /\ \E t \in timers : t.delay = 15000

\* C11: whenever the channel enters Open the retry counter becomes 0, so the
\* first unexpected close after a successful open schedules the reconnect
\* with the base delay of 800 ms, whatever the failures before that open.
ResetOnOpen ==
  [][/\ lastEvent'.op = "open" => reconnectAttempts' = 0
     /\ (/\ openedAfter >= 0
         /\ closeRun = 0
         /\ lastEvent'.op = "close"
         /\ lastEvent'.scheduled)
        => \E t \in timers' \ timers : t.delay = 800]_vars

\* an open that followed two or more failures, then its first close
OpenAfterFailuresReached ==
  /\ openedAfter >= 2
  /\ closeRun = 1
  /\ \E t \in timers : t.delay = 800

\* ---------------------------------------------------------------- teardown
\* the cleanup of the effect run g has run
TornDown(g) == g < gen \/ ~mounted

SocksOfRun(ss, g) == Cardinality({i \in 1..Len(ss) : ss[i].gen = g})

\* C12: teardown is terminal - after the effect cleanup, from Connecting,
\* Open or Backoff alike, the torn-down run opens no new connection, events
\* of its sockets no longer increment the retry counter or set a timer, and
\* its pending backoff timer fires without a connect; after the unmount
\* nothing connects at all.
TeardownIsTerminal ==
  [][/\ \A g \in 1..MaxGen :
          TornDown(g) =>
            /\ SocksOfRun(socks', g) = SocksOfRun(socks, g)
            /\ \A t \in timers' \ timers : t.gen # g
            /\ (\E i \in 1..Len(socks) :
                  socks[i].gen = g /\ socks'[i].st # socks[i].st)
               => reconnectAttempts' = reconnectAttempts
            /\ (\E t \in timers \ timers' : t.gen = g) => socks' = socks
     /\ ~mounted =>
          /\ Len(socks') = Len(socks)
          /\ reconnectAttempts' = reconnectAttempts
          /\ timers' \subseteq timers]_vars

\* torn down in Backoff: the pending timer fired after the unmount
TeardownInBackoffReached ==
  /\ ~mounted
  /\ reconnectAttempts >= 2
  /\ lastEvent.op = "timer"
  /\ ~lastEvent.connected

\* ---------------------------------------------------------------- recovery
\* socket i failed or closed while its effect run was in charge
Down(i) ==
  /\ i <= Len(socks)
  /\ socks[i].st \in {"errored", "closed"}
  /\ ~TornDown(socks[i].gen)

\* C13: automatic recovery - when the channel errors or closes without a
\* local close, a reconnect is scheduled by the close and, the timer being
\* allowed to fire and no teardown happening, a new connection attempt
\* follows; this holds after any number of consecutive failures.
AutomaticRecovery ==
  /\ [](\A i \in 1..MaxSocks :
          (Down(i) /\ socks[i].st = "closed" /\ i = Len(socks))
          => \E t \in timers : t.gen = socks[i].gen)
  /\ \A i \in 1..MaxSocks :
       (Down(i) /\ Len(socks) < MaxSocks)
       ~> /\ i <= Len(socks)
          /\ \/ TornDown(socks[i].gen)
             \/ /\ Len(socks) > i
                /\ socks[i + 1].gen = socks[i].gen

\* the sixth connection attempt in a row, made by the backoff timer
RetryAfterFailuresReached ==
  /\ reconnectAttempts >= 5
  /\ lastEvent.op = "timer"
  /\ lastEvent.connected
  /\ socks[Len(socks)].st = "connecting"

\* ------------------------------------------------------------- projection
\* a view is displayed
Displayed == stats # Null /\ ~fault

Names(rows) == [i \in 1..Len(rows) |-> rows[i].f.username]

\* the place of a presented row in the merged view
Pos(row) == CHOOSE i \in 1..Len(stats.users) : stats.users[i].ref = row.ref

\* the value the active sort key compares is the same for both rows; the
\* storage value is workspace_size over the comparator's divisor
Divisor(f) ==
  IF "quota_bytes" \in DOMAIN f /\ f.quota_bytes # 0 THEN f.quota_bytes ELSE 1

Tied(a, b, k) ==
  IF k = "username" THEN a.username = b.username
  ELSE IF k = "cpu" THEN a.cpu_percent = b.cpu_percent
  ELSE IF k = "mem" THEN a.mem_percent = b.mem_percent
  ELSE IF k = "status" THEN a.status = b.status
  ELSE a.workspace_size * Divisor(b) = b.workspace_size * Divisor(a)

\* C14: sort stability - for every sort key and both directions, presented
\* rows whose compared values tie keep the relative order they have in the
\* merged view; [bob(cpu 10), amy(cpu 10)] by cpu stays [bob, amy] and by
\* username ascending gives [amy, bob].
SortStability ==
  Displayed =>
    /\ \A i, j \in 1..Len(presented) :
         (i < j /\ Tied(presented[i].f, presented[j].f, sortKey))
         => Pos(presented[i]) < Pos(presented[j])
    /\ (Names(stats.users) = <<Bob, Amy>> /\ filter = <<>>) =>
         /\ sortKey = "cpu" => Names(presented) = <<Bob, Amy>>
         /\ (sortKey = "username" /\ sortDir = 1)
            => Names(presented) = <<Amy, Bob>>

\* tied rows, sorted descending, in the order of the view
TiesKeptReached ==
  /\ Displayed
  /\ Names(stats.users) = <<Bob, Amy>>
  /\ sortKey = "cpu"
  /\ sortDir = -1
  /\ Names(presented) = <<Bob, Amy>>
  /\ lastEvent.op = "toggleSort"

\* the letters c and d are the same up to case
SameLetter(c, d) ==
  c = d \/ \E i \in 1..26 : {c, d} = {UpperCase[i], LowerCase[i]}

\* u contains f as a substring, case-insensitively
Matches(u, f) ==
  \E i \in 0..(Len(u) - Len(f)) :
    \A j \in 1..Len(f) : SameLetter(u[i + j], f[j])

\* f without the blanks at its ends
Stripped(f) ==
  LET idx == {i \in 1..Len(f) : f[i] # " "}
  IN IF idx = {} THEN <<>>
     ELSE SubSeq(f, CHOOSE i \in idx : \A j \in idx : i <= j,
                 CHOOSE i \in idx : \A j \in idx : j <= i)

\* the presented rows are exactly the rows of the view that match f
PresentsMatching(f) ==
  /\ \A i \in 1..Len(stats.users) :
       (\E j \in 1..Len(presented) : presented[j].ref = stats.users[i].ref)
       <=> Matches(stats.users[i].f.username, f)
  /\ Len(presented) =
       Cardinality({i \in 1..Len(stats.users) :
                      Matches(stats.users[i].f.username, f)})

\* C15 as stated: the presented rows are exactly the sessions whose username
\* contains filterText, as given, as a case-insensitive substring; the empty
\* filterText presents all sessions.
FilterAsGiven == Displayed => PresentsMatching(filter)

\* C15, amended: the presented rows are exactly the sessions whose username
\* contains filterText without its leading and trailing whitespace as a
\* case-insensitive substring; a filterText that is empty or blank presents
\* all sessions; ["Alice","bob","ALEX"] with "al" gives ["Alice","ALEX"].
FilterTrimmed ==
  Displayed =>
    /\ PresentsMatching(Stripped(filter))
    /\ Stripped(filter) = <<>> => Len(presented) = Len(stats.users)
    /\ (Names(stats.users) = <<Alice, Bob, ALEX>>
          /\ filter = <<"a", "l">> /\ sortKey = "cpu" /\ sortDir = -1)
       => Names(presented) = <<Alice, ALEX>>

\* a padded lower-case filter picks the two names that match in upper case
PaddedFilterReached ==
  /\ Displayed
  /\ filter = <<"a", "l", " ">>
  /\ Names(stats.users) = <<Alice, Bob, ALEX>>
  /\ {presented[i].f.username : i \in 1..Len(presented)} = {Alice, ALEX}

\* workspace_size over the quota shown for the row, compared by cross product
FloorRatioOrder(a, b) ==
  a.workspace_size * DisplayQuota(b) - b.workspace_size * DisplayQuota(a)

\* C16: under the storage key the rows are ordered by workspace_size over
\* the effective quota - quota_bytes when present, otherwise the floor that
\* the display uses - so a row without quota_bytes ranks as with the floor.
StorageOrderUsesFloor ==
  (Displayed /\ sortKey = "storage") =>
    \A i, j \in 1..Len(presented) :
      i < j => FloorRatioOrder(presented[i].f, presented[j].f) * sortDir <= 0

\* C17: the projection never mutates its inputs - a render after a change
\* of the query state leaves the merged view (its session list, element by
\* element) and the pending set as they were and changes nothing of the
\* query state beyond what the handler set; a render after a snapshot
\* leaves the view the merge produced.
ProjectionIsPure ==
  [][/\ lastEvent'.op \in {"setFilter", "toggleSort"}
          => UNCHANGED <<stats, killingJobs>>
     /\ lastEvent'.op = "setFilter" => UNCHANGED <<sortKey, sortDir>>
     /\ lastEvent'.op = "toggleSort" => UNCHANGED filter
     /\ SnapshotStep =>
          /\ stats' = mergeStats(stats, lastParsed')
          /\ UNCHANGED queryVars]_vars

\* a sort put the presented rows in another order than the view has
ReorderedReached ==
  /\ Displayed
  /\ lastEvent.op = "toggleSort"
  /\ Len(presented) = Len(stats.users)
  /\ Names(presented) # Names(stats.users)

\* -------------------------------------------------------- aggregate reuse
\* C18: aggregate reuse - when every field of the new snapshot's aggregate
\* equals the field of the previous view's aggregate, the merged aggregate
\* is the previous aggregate object; when a field differs, it is the
\* aggregate object of the new snapshot.
AggregateReuse ==
  TwoMerged =>
    IF prevStats.overall.f = lastParsed.overall.f
      THEN stats.overall.ref = prevStats.overall.ref
      ELSE stats.overall.ref = lastParsed.overall.ref

\* the aggregate object was reused while a row of the snapshot changed
AggregateReusedReached ==
  /\ TwoMerged
  /\ stats.overall.ref = prevStats.overall.ref
  /\ stats.overall.ref # lastParsed.overall.ref
  /\ Len(prevParsed.users) = Len(lastParsed.users)
  /\ \E i \in 1..Len(lastParsed.users) :
       Content(prevParsed.users[i]) # Content(lastParsed.users[i])

\* ------------------------------------------------------- command failures
\* the step is the failure handler of a kill, stop or set-quota command
FailureStep ==
  lastEvent'.op \in {"killRejected", "stopRejected", "quotaRejected"}

\* the markers a failure handler removes: that of the failed kill
Rolledback ==
  IF lastEvent'.op = "killRejected"
    THEN {Key(reqs[lastEvent'.req].uname, reqs[lastEvent'.req].pid)}
    ELSE {}

\* C19: a command failure (kill, stop or set-quota rejected) leaves the
\* merged view as it was, for every view and pending set: of the view, the
\* pending set, the query state, the channel and the notifications, only
\* the marker of the failed kill and the notifications change.
FailureLeavesView ==
  [][FailureStep =>
       /\ stats' = stats
       /\ presented' = presented
       /\ killingJobs' = killingJobs \ Rolledback
       /\ notices' + logged' = notices + logged + 1
       /\ UNCHANGED <<queryVars, socks, timers, reconnectAttempts>>]_vars

\* a stop was rejected while a view was displayed and a marker was pending
StopFailureReached ==
  /\ lastEvent.op = "stopRejected"
  /\ Displayed
  /\ Len(stats.users) > 0
  /\ killingJobs # {}

\* the kill requests that were rejected
FailedKills == {r \in 1..Len(reqs) : reqs[r].st = "failed"}

\* C20: a rejected optimistic kill never persists silently - the failure of
\* a kill command is followed, at once, by a state where its marker is not
\* in the pending set and exactly one error notification for it has been
\* emitted: pushed when pushNotice is provided, logged otherwise.
RejectionIsSurfaced ==
  /\ [](/\ notices + logged = Cardinality(FailedKills)
        /\ pushNotice => logged = 0
        /\ ~pushNotice => notices = 0)
  /\ [][\A r \in 1..Len(reqs) :
          (reqs[r].st = "sent" /\ reqs'[r].st = "failed") =>
            /\ Key(reqs[r].uname, reqs[r].pid) \notin killingJobs'
            /\ IF pushNotice
                 THEN notices' = notices + 1 /\ logged' = logged
                 ELSE logged' = logged + 1 /\ notices' = notices]_vars

\* two kills were rejected with no pushNotice: both were logged
TwoFailuresLoggedReached ==
  /\ ~pushNotice
  /\ Cardinality(FailedKills) = 2
  /\ logged = 2
  /\ killingJobs = {}

\* ------------------------------------------------- snapshots and commands
\* a kill, stop or set-quota command was issued and has no response yet
Outstanding ==
  \/ \E r \in 1..Len(reqs) : reqs[r].st = "sent"
  \/ \E r \in 1..Len(stops) : stops[r].st = "sent"
  \/ \E r \in 1..Len(quotas) : quotas[r].st = "sent"

\* the channel is open and has a snapshot to deliver
SnapshotDue ==
  /\ ~fault
  /\ msgNo < MaxMsgs
  /\ \E i \in 1..Len(socks) : socks[i].st = "open"

\* C21: snapshot processing is never blocked by commands - while kill, stop
\* or set-quota commands are outstanding, the handler of every snapshot the
\* open channel delivers can run, and its one run both makes the view show
\* that snapshot and reconciles the pending set against it, with no command
\* response taken or awaited.
NeverBlockedByCommands ==
  /\ []((Outstanding /\ SnapshotDue) =>
          \A v \in BusySnapshots :
            ENABLED (\E i \in 1..MaxSocks : OnMessage(i, v)))
  /\ [][(SnapshotStep /\ Outstanding) =>
          /\ Len(stats'.users) = Len(lastParsed'.users)
          /\ \A i \in 1..Len(lastParsed'.users) :
               Content(stats'.users[i]) = Content(lastParsed'.users[i])
          /\ stats'.overall.f = lastParsed'.overall.f
          /\ killingJobs' =
               {Key(u, p) : u \in {UA}, p \in {q \in Pids :
                  Key(UA, q) \in killingJobs /\ Lists(lastParsed', UA, q)}}
          /\ UNCHANGED <<reqs, stops, quotas, busyUser, quotaBusy>>]_vars

\* with a kill, a stop and a set-quota command outstanding, a snapshot
\* without the job was merged and took the marker off
MergedWhileOutstandingReached ==
  /\ \E r \in 1..Len(reqs) : reqs[r].st = "sent"
  /\ \E r \in 1..Len(stops) : stops[r].st = "sent"
  /\ \E r \in 1..Len(quotas) : quotas[r].st = "sent"
  /\ lastEvent.op = "message"
  /\ prevKilling # {}
  /\ killingJobs = {}
  /\ Len(stats.users) = 1

\* ------------------------------------------------------ replace, not mutate
\* C22: the merged view is replaced, never mutated in place - the handler
\* of a snapshot leaves the previous view object (its row list, its rows and
\* its aggregate) and the decoded snapshot as they were, and the view after
\* the merge is a top-level object other than the previous view.
ReplacedNotMutated ==
  [][SnapshotStep =>
       /\ prevStats' = stats
       /\ lastParsed' \in {ParseVal(msgNo', v) : v \in MergeSnapshots}
       /\ stats # Null => stats'.ref # stats.ref]_vars

\* a merge that reused a row and the aggregate of the previous view gave a
\* new view object
NewViewObjectReached ==
  /\ TwoMerged
  /\ stats.ref # prevStats.ref
  /\ stats.ref # lastParsed.ref
  /\ stats.overall.ref = prevStats.overall.ref
  /\ \E i \in 1..Len(stats.users) :
       /\ i <= Len(prevStats.users)
       /\ stats.users[i].ref = prevStats.users[i].ref

\* ------------------------------------------------------------ quota floor
QuotaFloor == 50 * 1024 * 1024

\* quota_bytes when the row has one (and it is not 0), the floor otherwise
EffectiveQuota(f) ==
  IF "quota_bytes" \in DOMAIN f /\ f.quota_bytes # 0
    THEN f.quota_bytes ELSE QuotaFloor

\* C23: quota floor - for every row the quota used as a divisor or shown as
\* the limit is quota_bytes when present and the 50 MiB floor otherwise, the
\* same in the storage text, the quota dialog and the storage sort, and it
\* is never zero.
QuotaFloorEverywhere ==
  Displayed =>
    \A i \in 1..Len(stats.users) :
      LET f == stats.users[i].f
      IN /\ EffectiveQuota(f) # 0
         /\ DisplayQuota(f) = EffectiveQuota(f)
         /\ DialogQuota(stats, f.username) = EffectiveQuota(f)
         /\ SortQuota(f) = EffectiveQuota(f)

\* ------------------------------------------------------- marker and request
KeyOf(r) == Key(reqs[r].uname, reqs[r].pid)

\* no other kill request was made for the (u, pid) of request r
OnlyRequestFor(r) ==
  \A b \in 1..Len(reqs) :
    (reqs[b].uname = reqs[r].uname /\ reqs[b].pid = reqs[r].pid) => b = r

\* C24: confirming a kill puts the marker (u, pid) in the pending set no
\* later than the request is sent, the success of the kill command leaves
\* the pending set as it is, and after success the marker stays until a
\* snapshot that no longer lists the pid.
MarkedUntilSnapshot ==
  [][/\ \A r \in 1..Len(reqs') :
          r > Len(reqs) => Key(reqs'[r].uname, reqs'[r].pid) \in killingJobs'
     /\ lastEvent'.op = "killResolved" => killingJobs' = killingJobs
     /\ \A r \in 1..Len(reqs) :
          (/\ reqs[r].st = "ok"
           /\ OnlyRequestFor(r)
           /\ ~fault'
           /\ KeyOf(r) \in killingJobs
           /\ KeyOf(r) \notin killingJobs')
          => /\ SnapshotStep
             /\ ~Lists(lastParsed', reqs[r].uname, reqs[r].pid)]_vars

\* C25: the failure of a kill request removes only the marker that request
\* created - when request A for (u, p) fails while a later request B for the
\* same (u, p) is outstanding and its marker is pending, the marker stays.
FailureKeepsLaterMarker ==
  [][\A a, b \in 1..Len(reqs) :
       (/\ a < b
        /\ reqs[a].st = "sent"
        /\ reqs'[a].st = "failed"
        /\ reqs[b].st = "sent"
        /\ KeyOf(a) = KeyOf(b)
        /\ KeyOf(b) \in killingJobs)
       => KeyOf(b) \in killingJobs']_vars

\* C26: marker key round trip - the key built for (u, pid) decodes back to
\* exactly (u, pid), also for a username that contains ':', so that a
\* snapshot keeps the marker exactly when session u lists the pid; distinct
\* (u, pid) pairs have distinct keys.
KeyRoundTrip ==
  /\ [](\A r \in 1..Len(reqs) :
          DecodeKey(KeyOf(r)) = [uname |-> reqs[r].uname,
                                 pidNum |-> reqs[r].pid])
  /\ [](\A a, b \in 1..Len(reqs) :
          KeyOf(a) = KeyOf(b) =>
            reqs[a].uname = reqs[b].uname /\ reqs[a].pid = reqs[b].pid)
  /\ [][SnapshotStep =>
          \A r \in 1..Len(reqs) :
            KeyOf(r) \in killingJobs =>
              (KeyOf(r) \in killingJobs'
                 <=> Lists(lastParsed', reqs[r].uname, reqs[r].pid))]_vars

\* -------------------------------------------------------------- one channel
\* the sockets that are Connecting or Open
LiveSocks == {i \in 1..Len(socks) : socks[i].st \in {"connecting", "open"}}

\* C27: at most one channel is in use - in every reachable state there is
\* at most one socket that is Connecting or Open, at most one pending
\* backoff timer, and never a live socket together with a pending timer.
OneChannelInUse ==
  /\ Cardinality(LiveSocks) <= 1
  /\ Cardinality(timers) <= 1
  /\ ~(LiveSocks # {} /\ timers # {})

\* ------------------------------------------------- lifecycle and the view
\* the step is a lifecycle event of the channel
LifecycleStep ==
  lastEvent'.op \in {"open", "error", "close", "timer", "token", "unmount"}

\* C28: connection lifecycle events (open, error, unexpected close, backoff
\* timer fire, reconnect, teardown) leave the merged view and the pending
\* set unchanged - the last snapshot applied stays displayed while the
\* channel is down, and a pending marker survives the disconnect until a
\* snapshot arrives on the new connection.
LifecycleLeavesView ==
  [][/\ LifecycleStep => UNCHANGED <<stats, presented, killingJobs>>
     /\ (killingJobs # {} /\ killingJobs' # killingJobs) =>
          /\ lastEvent'.op \in {"message", "confirmKill"}
          /\ lastEvent'.op = "message" =>
               socks[lastEvent'.sock].st = "open"]_vars

\* the channel went down and came back with a view displayed and a marker
\* pending
ReconnectedWithMarkerReached ==
  /\ lastEvent.op = "open"
  /\ Len(socks) >= 2
  /\ socks[1].st = "closed"
  /\ socks[Len(socks)].st = "open"
  /\ reconnectAttempts = 0
  /\ Displayed
  /\ Len(stats.users) = 1
  /\ killingJobs # {}

\* C30: after the teardown of a channel (unmount, or a token change that
\* replaces the socket) no message that arrives on the torn-down socket
\* changes the merged view or the pending set, however the teardown
\* interleaves with the messages in flight on that socket.
NoUpdateAfterTeardown ==
  [][(/\ lastEvent'.op \in {"message", "discard"}
      /\ TornDown(socks[lastEvent'.sock].gen))
     => UNCHANGED <<stats, presented, killingJobs>>]_vars

\* a message arrived on the socket a token change had replaced, with a view
\* displayed and a marker pending
LateMessageReached ==
  /\ lastEvent.op = "discard"
  /\ mounted
  /\ socks[lastEvent.sock].gen < gen
  /\ Displayed
  /\ killingJobs # {}

\* -------------------------------------------------------------- busy marker
\* C29: while a stop-session request for user u is outstanding the busy
\* marker names u, also when the stop requests of two users overlap, and
\* the busy marker is cleared only when no stop request is outstanding.
BusyWhileStopping ==
  /\ [](\A r \in 1..Len(stops) :
          stops[r].st = "sent" => busyUser = stops[r].target)
  /\ [][(busyUser # NoUser /\ busyUser' = NoUser) =>
          \A r \in 1..Len(stops') : stops'[r].st # "sent"]_vars

====
